---- MODULE Spec2Model ----
(***************************************************************************)
(* Model of the prompt optimizer core: the session record                  *)
(* (prompt_optimizer/domain/models.py), the stage engine                   *)
(* (state_machine/engine.py), the harmonizer (pipelines/harmonizer.py),    *)
(* the template renderer (prompts/manager.py) and the generation backends  *)
(* (llm/client.py), and run_cli of optimizer.py, which drives them.        *)
(* Spec is run_cli from its first line: model selection, build_client, the *)
(* draft prompt, and the stage loop, which ends at its first read of       *)
(* analysis_result.summary.  SpecCore is the core under a caller other     *)
(* than run_cli, which calls process_step for the steps in the order of    *)
(* steps_to_run, may repeat a step with feedback, and then harmonizes.     *)
(* SpecAny is the core under any caller: process_step for any step with    *)
(* any feedback, and harmonize, in any order.                              *)
(*                                                                         *)
(* Texts are strings.  A dict is a sequence of <<key, value>> pairs in     *)
(* insertion order (Python dicts keep it).  Timestamps and the session id  *)
(* value are left out of the records: no operation reads them, except the  *)
(* JSON encoding of the whole session, which is modelled by their types.   *)
(***************************************************************************)
EXTENDS Naturals, Sequences, FiniteSets, TLC

\* ------------------------------------------------------------------ bounds
\* stage attempts repeated in one run: rejections by the user and
\* re-invocations after a backend failure
MaxRetries == 1
\* answers of a hosted backend in one run that differ from its usual one
MaxAltAnswers == 1
\* harmonize calls the caller makes in one run
MaxHarmonize == 2
\* process_step calls made by a caller that keeps no order
MaxAnyCalls == 2

\* ------------------------------------------------------------------ inputs
\* texts a hosted backend may answer with: its usual one and another one
UsualAnswer == "r1"
Responses == {UsualAnswer, "r2"}
\* failures a hosted backend may raise (auth, transport)
BackendErrors == {"AuthenticationError", "APIConnectionError"}
\* texts the user may type at "Provide feedback for refinement: "
FeedbackTexts == {"", "shorter"}
\* draft prompts the user may enter
DraftPrompts == {"draft"}
\* backends: MockLLMClient, OpenAILLMClient, GeminiLLMClient
ClientKinds == {"mock", "gpt-5", "gemini-2.5-flash"}
\* what the user types at "Choose a model [1/2]: "
RawChoices == {"1", "2", "", "x"}
\* what the user enters as draft prompt, before .strip()
DraftInputs == {"", "  ", "exit", "Exit", "draft", "plan"}

\* Python's None
None == "<None>"

\* ------------------------------------------------------- domain/models.py
\* OptimizationStep, in declaration order
OptimizationStep ==
    << "user_intent", "role", "objective", "context", "audience",
       "key_points", "constraints", "output", "harmonization", "final_output" >>

HARMONIZATION == "harmonization"
FINAL_OUTPUT == "final_output"

\* position of a step in the fixed order of the enumeration
StepOrder(step) == CHOOSE i \in 1..Len(OptimizationStep) : OptimizationStep[i] = step

\* "x in list"
InList(x, list) == \E i \in 1..Len(list) : list[i] = x

\* dict[key] = value: overwrite in place when the key is present, else append
DictSet(d, key, value) ==
    IF \E i \in 1..Len(d) : d[i][1] = key
    THEN [i \in 1..Len(d) |-> IF d[i][1] = key THEN <<key, value>> ELSE d[i]]
    ELSE Append(d, <<key, value>>)

DictHas(d, key) == \E i \in 1..Len(d) : d[i][1] = key

\* dict.get(key, default)
DictGet(d, key, default) ==
    IF DictHas(d, key)
    THEN d[CHOOSE i \in 1..Len(d) : d[i][1] = key][2]
    ELSE default

\* number of entries of the dict under the key
DictCount(d, key) == Cardinality({i \in 1..Len(d) : d[i][1] = key})

\* PromptSession(parameters={"draft_prompt": raw_prompt})
NewSession(raw_prompt) ==
    [ current_step     |-> "user_intent",
      completed_steps  |-> << >>,
      parameters       |-> << <<"draft_prompt", raw_prompt>> >>,
      analysis_history |-> << >> ]

\* PromptSession.is_complete
is_complete(s) == s.current_step = FINAL_OUTPUT

\* record_analysis as it would be without the "not in" test: the step is
\* appended to completed_steps every time
record_analysis_always_appends(s, result) ==
    [ s EXCEPT
        !.analysis_history = Append(@, result),
        !.completed_steps  = Append(@, result.step),
        !.current_step     = result.step ]

\* record_analysis as it would be with the history assigned instead of
\* appended to
record_analysis_replaces_history(s, result) ==
    [ s EXCEPT
        !.analysis_history = << result >>,
        !.completed_steps  = IF InList(result.step, @) THEN @ ELSE Append(@, result.step),
        !.current_step     = result.step ]

\* record_analysis as it would be with the pointer set only by the first
\* result recorded, while completed_steps is still empty
record_analysis_keeps_pointer(s, result) ==
    [ s EXCEPT
        !.analysis_history = Append(@, result),
        !.completed_steps  = IF InList(result.step, @) THEN @ ELSE Append(@, result.step),
        !.current_step     = IF Len(s.completed_steps) = 0 THEN result.step ELSE @ ]

\* PromptSession.record_analysis
record_analysis(s, result) ==
    [ s EXCEPT
        !.analysis_history = Append(@, result),
        !.completed_steps  = IF InList(result.step, @) THEN @ ELSE Append(@, result.step),
        !.current_step     = result.step ]

\* ------------------------------------------------------ prompts/manager.py
\* step.value.replace("_", " ").title()
StepLabel(step) ==
    CASE step = "user_intent"  -> "User Intent"
      [] step = "role"         -> "Role"
      [] step = "objective"    -> "Objective"
      [] step = "context"      -> "Context"
      [] step = "audience"     -> "Audience"
      [] step = "key_points"   -> "Key Points"
      [] step = "constraints"  -> "Constraints"
      [] step = "output"       -> "Output"
      [] step = "harmonization" -> "Harmonization"
      [] step = "final_output" -> "Final Output"

\* the feedback substitution as it would be without the default filter
FeedbackText_plain(feedback) == feedback

\* {{ feedback | default("None provided", true) }}: None and "" are falsy
FeedbackText(feedback) ==
    IF feedback = None \/ feedback = "" THEN "None provided" ELSE feedback

\* PromptManager.render_analyze_step: the rendered text is the template with
\* these four substitutions, kept apart as the fields of a record
render_analyze_step(step, user_prompt, s, feedback) ==
    [ template    |-> "analyze_step",
      step_label  |-> StepLabel(step),
      user_prompt |-> user_prompt,
      parameters  |-> s.parameters,
      feedback    |-> FeedbackText(feedback) ]

\* json.dumps encodes values of these Python types only
JsonTypes == {"str", "int", "float", "bool", "NoneType", "list", "dict"}

\* Types of the values of PromptSession.model_dump() (python mode keeps the
\* UUID and datetime objects; OptimizationStep is a str subclass)
ModelDumpTypes ==
    [ session_id       |-> "UUID",
      created_at       |-> "datetime",
      current_step     |-> "str",
      completed_steps  |-> "list",
      parameters       |-> "dict",
      analysis_history |-> "list",
      token_usage      |-> "NoneType" ]

\* PromptManager.render_global_harmonize: {{ session_state | tojson }} with
\* filters["tojson"] = json.dumps raises TypeError on a value json.dumps
\* cannot encode
render_global_harmonize(s) ==
    IF \A f \in DOMAIN ModelDumpTypes : ModelDumpTypes[f] \in JsonTypes
    THEN [ raised |-> "none",
           text   |-> [ template |-> "global_harmonize", session_state |-> s ] ]
    ELSE [ raised |-> "TypeError", text |-> None ]

\* ------------------------------------------------------------ llm/client.py
\* MockLLMClient.generate's return value
MockResponse(step) ==
    "[MOCK] Response for " \o step \o ": synthesized output based on prompt."

\* number of words (str.split()) of the texts of the model
Words(text) ==
    CASE text = "" -> 0
      [] text \in {"None provided", "User Intent", "Key Points", "Final Output"} -> 2
      [] text \in { MockResponse(OptimizationStep[i]) : i \in 1..Len(OptimizationStep) } -> 9
      [] OTHER -> 1

\* words of json.dumps(dict): every entry gives its key, followed by ": ", and
\* the words of its value inside quotes (one word for an empty value)
RECURSIVE JsonWords(_)
JsonWords(d) ==
    IF d = << >> THEN 0
    ELSE LET w == Words(d[Len(d)][2])
         IN  JsonWords(SubSeq(d, 1, Len(d) - 1)) + 1 + (IF w = 0 THEN 1 ELSE w)

\* words of analyze_step_template outside its substitutions, the quotes
\* around the first step_label not counted
AnalyzeTemplateWords == 44

\* words of global_harmonize_template outside its substitution
HarmonizeTemplateWords == 56

\* len(prompt.split()) of a rendered prompt
PromptWords(prompt) ==
    IF prompt.template = "analyze_step"
    THEN AnalyzeTemplateWords + 2 * Words(prompt.step_label) + Words(prompt.user_prompt)
         + (IF prompt.parameters = << >> THEN 1 ELSE JsonWords(prompt.parameters))
         + Words(prompt.feedback)
    ELSE HarmonizeTemplateWords + 1

\* TokenUsage()
ZeroUsage == [ prompt_tokens |-> 0, completion_tokens |-> 0, cached_tokens |-> 0 ]

\* a client after construction
NewClient(kind) == [ kind |-> kind, calls |-> 0, usage |-> ZeroUsage ]

\* usage a hosted service reports with an answer: response.usage /
\* response.usage_metadata, which may be missing
NoUsage == [ reported |-> FALSE, prompt_tokens |-> 0, completion_tokens |-> 0, total_tokens |-> 0 ]
UsualUsage == [ reported |-> TRUE, prompt_tokens |-> 5, completion_tokens |-> 3, total_tokens |-> 9 ]

\* the counts one generate call measures: the mock counts words, a hosted
\* client takes the service's report (Gemini derives the cached tokens)
CallUsage(kind, prompt, outcome) ==
    IF kind = "mock"
    THEN LET prompt_tokens == PromptWords(prompt)
             half == prompt_tokens \div 2
         IN  [ prompt_tokens     |-> prompt_tokens,
               completion_tokens |-> IF half > 1 THEN half ELSE 1,
               cached_tokens     |-> 0 ]
    ELSE IF ~outcome.usage.reported
    THEN ZeroUsage
    ELSE IF kind = "gemini-2.5-flash"
    THEN LET spent == outcome.usage.prompt_tokens + outcome.usage.completion_tokens
         IN  [ prompt_tokens     |-> outcome.usage.prompt_tokens,
               completion_tokens |-> outcome.usage.completion_tokens,
               cached_tokens     |-> IF outcome.usage.total_tokens > spent
                                     THEN outcome.usage.total_tokens - spent ELSE 0 ]
    ELSE [ prompt_tokens     |-> outcome.usage.prompt_tokens,
           completion_tokens |-> outcome.usage.completion_tokens,
           cached_tokens     |-> 0 ]

\* the sum of two usages
AddUsage(u, v) ==
    [ prompt_tokens     |-> u.prompt_tokens + v.prompt_tokens,
      completion_tokens |-> u.completion_tokens + v.completion_tokens,
      cached_tokens     |-> u.cached_tokens + v.cached_tokens ]

\* LLMClient.generate(prompt, step).  outcome is what the hosted service does
\* with the request: it answers (error = "none") with a text and a usage
\* report, or raises; the mock never fails and ignores it.  The mock adds the
\* call's counts to its counters, the hosted clients assign self._usage.
generate(c, prompt, step, outcome) ==
    IF c.kind = "mock"
    THEN [ client   |-> [c EXCEPT !.calls = @ + 1,
                                  !.usage = AddUsage(@, CallUsage(c.kind, prompt, outcome))],
           raised   |-> "none",
           response |-> MockResponse(step) ]
    ELSE IF outcome.error /= "none"
    THEN [ client   |-> [c EXCEPT !.calls = @ + 1],
           raised   |-> outcome.error,
           response |-> None ]
    ELSE [ client   |-> [c EXCEPT !.calls = @ + 1,
                                  !.usage = CallUsage(c.kind, prompt, outcome)],
           raised   |-> "none",
           response |-> outcome.text ]

\* LLMClient.get_token_usage
get_token_usage(c) == c.usage

\* what the service behind a client may do with one request
Outcomes(kind) ==
    IF kind = "mock"
    THEN { [error |-> "none", text |-> None, usage |-> NoUsage] }
    ELSE { [error |-> "none", text |-> t, usage |-> UsualUsage] : t \in Responses }
         \cup { [error |-> e, text |-> None, usage |-> NoUsage] : e \in BackendErrors }

\* the outcome stays within the run's bounds
Allowed(outcome, retries_made, alt_made) ==
    /\ outcome.error /= "none" => retries_made < MaxRetries
    /\ (outcome.error = "none" /\ outcome.text \notin {None, UsualAnswer})
          => alt_made < MaxAltAnswers

\* ------------------------------------------------- state_machine/engine.py
\* process_step as it would be with the stage pointer advanced before the
\* backend is called: a failed call then leaves the session changed
process_step_advance_first(s, c, step, user_prompt, feedback, outcome) ==
    LET prompt == render_analyze_step(step, user_prompt, s, feedback)
        g      == generate(c, prompt, step, outcome)
        analysis_result ==
            [ step    |-> step,
              summary |-> g.response,
              details |-> << <<"suggestion", g.response>>, <<"prompt", prompt>> >> ]
    IN  IF g.raised /= "none"
        THEN [ session  |-> [s EXCEPT !.current_step = step,
                                      !.parameters = DictSet(@, step, "")],
               client   |-> g.client,
               returned |-> [kind |-> "nothing"],
               raised   |-> g.raised ]
        ELSE [ session  |-> record_analysis(
                              [s EXCEPT !.parameters = DictSet(@, step, g.response)],
                              analysis_result),
               client   |-> g.client,
               returned |-> [kind |-> "PromptSession"],
               raised   |-> "none" ]

\* PromptOptimizerEngine.process_step: the session and client after the call,
\* the value returned and the exception raised
process_step(s, c, step, user_prompt, feedback, outcome) ==
    LET prompt == render_analyze_step(step, user_prompt, s, feedback)
        g      == generate(c, prompt, step, outcome)
        analysis_result ==
            [ step    |-> step,
              summary |-> g.response,
              details |-> << <<"suggestion", g.response>>, <<"prompt", prompt>> >> ]
    IN  IF g.raised /= "none"
        THEN [ session  |-> s,
               client   |-> g.client,
               returned |-> [kind |-> "nothing"],
               raised   |-> g.raised ]
        ELSE [ session  |-> record_analysis(
                              [s EXCEPT !.parameters = DictSet(@, step, g.response)],
                              analysis_result),
               client   |-> g.client,
               returned |-> [kind |-> "PromptSession"],
               raised   |-> "none" ]

\* --------------------------------------------------- pipelines/harmonizer.py
\* GlobalHarmonizer.harmonize
harmonize(s, c, outcome) ==
    LET r == render_global_harmonize(s)
        g == generate(c, r.text, HARMONIZATION, outcome)
        harmonization_result ==
            [ step    |-> HARMONIZATION,
              summary |-> "Harmonized the prompt based on the full session state.",
              details |-> << <<"harmonized_prompt", g.response>> >> ]
        final_output_result ==
            [ step    |-> FINAL_OUTPUT,
              summary |-> "Final optimized prompt ready for use.",
              details |-> << <<"final_prompt", g.response>> >> ]
        s1 == record_analysis(s, harmonization_result)
        s2 == [s1 EXCEPT !.parameters = DictSet(@, FINAL_OUTPUT, g.response)]
    IN  IF r.raised /= "none"
        THEN [ session |-> s, client |-> c,
               returned |-> [kind |-> "nothing"], raised |-> r.raised ]
        ELSE IF g.raised /= "none"
        THEN [ session |-> s, client |-> g.client,
               returned |-> [kind |-> "nothing"], raised |-> g.raised ]
        ELSE [ session |-> record_analysis(s2, final_output_result),
               client |-> g.client,
               returned |-> [kind |-> "PromptSession"], raised |-> "none" ]

\* --------------------------------------------------------------- optimizer.py
\* run_cli's steps_to_run
steps_to_run ==
    << "user_intent", "role", "objective", "context", "audience",
       "key_points", "constraints", "output" >>

\* AppSettings as the environment can make them: a key is unset (None), set to
\* the empty string, or set to a value
AppSettings ==
    { [ default_model |-> "mock", openai_api_key |-> None, gemini_api_key |-> "" ],
      [ default_model |-> "mock", openai_api_key |-> "sk-1", gemini_api_key |-> None ],
      [ default_model |-> "mock", openai_api_key |-> "", gemini_api_key |-> "g-1" ],
      [ default_model |-> "mock", openai_api_key |-> "sk-1", gemini_api_key |-> "g-1" ],
      [ default_model |-> "gpt-5", openai_api_key |-> "sk-1", gemini_api_key |-> "" ],
      [ default_model |-> "x", openai_api_key |-> None, gemini_api_key |-> "g-1" ] }

\* python's truth value of an optional string: None and "" are false
Truthy(value) == value /= None /\ value /= ""

\* str.strip() and str.lower() on the texts the model enters
Strip(text) == IF text = "  " THEN "" ELSE text
Lower(text) == IF text = "Exit" THEN "exit" ELSE text

\* build_client as it would be without the checks of the configured key
build_client_unchecked(model_choice, settings) ==
    [ raised |-> "none", client |-> NewClient(model_choice) ]

\* build_client: a hosted model without a configured key raises ValueError
\* before any client is constructed; any other choice gives the mock
build_client(model_choice, settings) ==
    IF model_choice = "gemini-2.5-flash"
    THEN IF ~Truthy(settings.gemini_api_key)
         THEN [ raised |-> "ValueError", client |-> None ]
         ELSE [ raised |-> "none", client |-> NewClient(model_choice) ]
    ELSE IF model_choice = "gpt-5"
    THEN IF ~Truthy(settings.openai_api_key)
         THEN [ raised |-> "ValueError", client |-> None ]
         ELSE [ raised |-> "none", client |-> NewClient(model_choice) ]
    ELSE [ raised |-> "none", client |-> NewClient("mock") ]

\* _normalize_model_choice
normalize_model_choice(choice) ==
    LET normalized == Lower(Strip(choice))
    IN  IF normalized = "" THEN None
        ELSE IF normalized \in {"1", "gemini", "gemini-2.5-flash", "gemini 2.5 flash"}
        THEN "gemini-2.5-flash"
        ELSE IF normalized \in {"2", "chatgpt", "gpt-5", "gpt5"} THEN "gpt-5"
        ELSE IF normalized \in {"mock", "dry-run", "dryrun"} THEN "mock"
        ELSE None

\* run_cli before client and session_state are bound
NoClient == [ kind |-> None, calls |-> 0, usage |-> ZeroUsage ]
NoSession ==
    [ current_step |-> None, completed_steps |-> << >>,
      parameters |-> << >>, analysis_history |-> << >> ]

\* ---------------------------------------------------------------- the state
VARIABLES
    session,         \* the PromptSession
    client,          \* the backend instance shared by engine and harmonizer
    raw_prompt,      \* the draft prompt
    pc,              \* where run_cli is: select_model, build_client,
                     \* enter_draft, generating, restart_question, aborted,
                     \* crashed; "caller" when a caller other than run_cli
                     \* drives the core
    stage,           \* index into steps_to_run of the step of the stage loop
                     \* (of the last step generated, for a caller of the core)
    feedback,        \* the feedback variable of the stage loop (the feedback
                     \* argument of the last call, for a caller of the core)
    returned,        \* value the last core call returned
    raised,          \* exception the last operation ended with, or "none"
    last_op,         \* the last operation performed
    last_response,   \* text the backend answered the last successful generate with
    last_outcome,    \* what the backend does with the request of the last core call
    pre,             \* session and client as they were before the last core call
    accepted,        \* <<step, text>> of every candidate the user accepted
    attempts,        \* <<step, feedback, text>> of every candidate generated
    harmonize_calls, \* number of harmonize calls made
    rejections,      \* <<step, text>> of every rejection: the feedback typed
    usage_sum,       \* sum of the counts of the generate calls that answered
    retries,         \* repeated calls and backend failures so far
    alt_answers,     \* answers other than the usual one so far
    settings,        \* the AppSettings main reads from the environment
    model_choice     \* run_cli's model_choice, None before a selection

vars == << session, client, raw_prompt, pc, stage, feedback, returned, raised,
           last_op, last_response, last_outcome, pre, accepted, attempts,
           harmonize_calls, rejections, usage_sum, retries, alt_answers,
           settings, model_choice >>

\* what only the start of run_cli writes
startup == << settings, model_choice >>

\* ------------------------------------------------------------------ run_cli
\* run_cli from its first line: nothing selected, no client, no session
Init ==
    /\ settings \in AppSettings
    /\ model_choice = None
    /\ client = NoClient
    /\ session = NoSession
    /\ raw_prompt = None
    /\ pc = "select_model"
    /\ stage = 1
    /\ feedback = None
    /\ returned = [kind |-> "nothing"]
    /\ raised = "none"
    /\ last_op = "none"
    /\ last_response = None
    /\ last_outcome = [error |-> "none", text |-> None, usage |-> NoUsage]
    /\ pre = [session |-> NoSession, client |-> NoClient]
    /\ accepted = {}
    /\ attempts = << >>
    /\ harmonize_calls = 0
    /\ rejections = << >>
    /\ usage_sum = ZeroUsage
    /\ retries = 0
    /\ alt_answers = 0

\* the inner loop of lines 168-181: the typed choice is normalised, the
\* default model stands in for a choice that is not recognised, and the
\* question is asked again while neither gives a model
SelectModel(raw_choice) ==
    /\ pc = "select_model"
    /\ LET normalized_choice == normalize_model_choice(Strip(raw_choice))
           default_choice    == normalize_model_choice(settings.default_model)
           choice == IF normalized_choice /= None THEN normalized_choice
                                                  ELSE default_choice
       IN  /\ model_choice' = choice
           /\ pc' = IF choice = None THEN "select_model" ELSE "build_client"
    /\ raised' = "none"
    /\ last_op' = "select_model"
    /\ UNCHANGED << session, client, raw_prompt, stage, feedback, returned,
                    last_response, last_outcome, pre, accepted, attempts,
                    harmonize_calls, rejections, usage_sum, retries, alt_answers,
                    settings >>

\* lines 183-192: build_client; on ValueError the message is printed and the
\* outer loop continues with the model selection
BuildClient ==
    /\ pc = "build_client"
    /\ LET r == build_client(model_choice, settings)
       IN  /\ raised' = r.raised
           /\ client' = IF r.raised = "none" THEN r.client ELSE client
           /\ pc' = IF r.raised = "none" THEN "enter_draft" ELSE "select_model"
    /\ last_op' = "build_client"
    /\ UNCHANGED << session, raw_prompt, stage, feedback, returned,
                    last_response, last_outcome, pre, accepted, attempts,
                    harmonize_calls, rejections, usage_sum, retries, alt_answers,
                    startup >>

\* lines 194-207: the draft prompt is read, stripped and assigned to
\* raw_prompt (199-201); an empty one or "exit" in any case then ends
\* run_cli, any other creates the session
EnterDraft(text) ==
    /\ pc = "enter_draft"
    /\ LET entered == Strip(text)
       IN  /\ raw_prompt' = entered
           /\ IF ~Truthy(entered) \/ Lower(Strip(entered)) = "exit"
              THEN /\ pc' = "aborted"
                   /\ UNCHANGED << session, pre >>
              ELSE /\ session' = NewSession(entered)
                   /\ pre' = [session |-> session', client |-> client]
                   /\ pc' = "generating"
    /\ raised' = "none"
    /\ last_op' = "enter_draft"
    /\ UNCHANGED << client, stage, feedback, returned,
                    last_response, last_outcome, accepted, attempts,
                    harmonize_calls, rejections, usage_sum, retries, alt_answers,
                    startup >>

\* the text a generate call of this client answers with
Answer(c, step, outcome) ==
    IF c.kind = "mock" THEN MockResponse(step) ELSE outcome.text

\* One pass of the while loop of lines 223-261, and what follows the last
\* stage (263-286).  process_step is called in no try block and main catches
\* KeyboardInterrupt only: an exception of the backend ends run_cli.  The
\* panel of line 244 reads analysis_result.summary: on a value without that
\* attribute AttributeError ends run_cli before "Accept? [Y/n]" is asked.
\* Past the panel an answer starting with n stores the typed feedback for the
\* next pass; any other answer commits the summary (259-260) and the for
\* loop goes on with the next step and feedback None, or, after the last
\* step, with harmonizer.harmonize, again in no try block.
StageAttempt(outcome, confirmation, text, final) ==
    /\ pc = "generating"
    /\ LET step == steps_to_run[stage]
           r    == process_step(session, client, step, raw_prompt, feedback, outcome)
           answered == r.raised = "none"
           shown  == answered /\ r.returned.kind = "AnalysisResult"
           reject == shown /\ confirmation = "n"
           accept == shown /\ confirmation /= "n"
           committed ==
               IF accept
               THEN record_analysis(
                        [r.session EXCEPT !.parameters =
                             DictSet(@, step, r.returned.summary)],
                        r.returned)
               ELSE r.session
           last == accept /\ stage = Len(steps_to_run)
           h    == harmonize(committed, r.client, final)
       IN  /\ session' = IF last THEN h.session ELSE committed
           /\ client' = IF last THEN h.client ELSE r.client
           /\ returned' = r.returned
           /\ raised' = IF ~answered THEN r.raised
                        ELSE IF ~shown THEN "AttributeError"
                        ELSE IF last THEN h.raised
                        ELSE "none"
           /\ pc' = IF ~shown THEN "crashed"
                    ELSE IF ~last THEN "generating"
                    ELSE IF h.raised = "none" THEN "restart_question"
                    ELSE "crashed"
           /\ feedback' = IF reject THEN text
                          ELSE IF accept /\ ~last THEN None
                          ELSE feedback
           /\ stage' = IF accept /\ ~last THEN stage + 1 ELSE stage
           /\ rejections' = IF reject THEN Append(rejections, <<step, text>>)
                                      ELSE rejections
           /\ accepted' = IF accept
                          THEN accepted \cup { <<step, r.returned.summary>> }
                          ELSE accepted
           /\ harmonize_calls' = IF last THEN harmonize_calls + 1 ELSE harmonize_calls
           /\ last_response' = IF answered THEN Answer(client, step, outcome)
                                           ELSE last_response
           /\ attempts' = IF answered
                          THEN Append(attempts, <<step, feedback, last_response'>>)
                          ELSE attempts
           /\ usage_sum' =
                 IF answered
                 THEN AddUsage(usage_sum,
                               CallUsage(client.kind,
                                         render_analyze_step(step, raw_prompt, session, feedback),
                                         outcome))
                 ELSE usage_sum
    /\ pre' = [session |-> session, client |-> client]
    /\ last_outcome' = outcome
    /\ last_op' = "process_step"
    /\ UNCHANGED << raw_prompt, retries, alt_answers, startup >>

\* what the user answers to "Accept? [Y/n]: "
Confirmations == {"y", "n"}

Next ==
    \/ \E raw_choice \in RawChoices : SelectModel(raw_choice)
    \/ BuildClient
    \/ \E text \in DraftInputs : EnterDraft(text)
    \/ \E outcome, final \in Outcomes(client.kind) :
          \E confirmation \in Confirmations, text \in FeedbackTexts :
              StageAttempt(outcome, confirmation, text, final)

Spec == Init /\ [][Next]_vars

\* ------------------------------------------------- the core under any caller
\* AppSettings() in an empty environment
DefaultSettings ==
    [ default_model |-> "mock", openai_api_key |-> None, gemini_api_key |-> None ]

\* a caller has built a client, an engine and a harmonizer on it, and a
\* session for a draft prompt
InitCore ==
    /\ raw_prompt \in DraftPrompts
    /\ session = NewSession(raw_prompt)
    /\ client \in { NewClient(k) : k \in ClientKinds }
    /\ settings = DefaultSettings
    /\ model_choice = client.kind
    /\ pc = "caller"
    /\ stage = 0
    /\ feedback = None
    /\ returned = [kind |-> "nothing"]
    /\ raised = "none"
    /\ last_op = "none"
    /\ last_response = None
    /\ last_outcome = [error |-> "none", text |-> None, usage |-> NoUsage]
    /\ pre = [session |-> session, client |-> client]
    /\ accepted = {}
    /\ attempts = << >>
    /\ harmonize_calls = 0
    /\ rejections = << >>
    /\ usage_sum = ZeroUsage
    /\ retries = 0
    /\ alt_answers = 0

\* position of a stage in steps_to_run
StageIndex(step) == CHOOSE i \in 1..Len(steps_to_run) : steps_to_run[i] = step

\* engine.process_step(session, step, raw_prompt, feedback): the engine checks
\* nothing about the call, so any member of OptimizationStep and any feedback
\* is taken, whatever was generated before and whether or not harmonize was
\* called.  An exception of the backend reaches the caller, who may call
\* again.
ProcessStep(step, text, outcome) ==
    /\ pc = "caller"
    /\ Allowed(outcome, retries, alt_answers)
    /\ LET r == process_step(session, client, step, raw_prompt, text, outcome)
           repeat == stage >= 1 /\ step = steps_to_run[stage]
       IN  /\ session' = r.session
           /\ client' = r.client
           /\ returned' = r.returned
           /\ raised' = r.raised
           /\ retries' = IF repeat \/ r.raised /= "none" THEN retries + 1 ELSE retries
           /\ stage' = IF r.raised = "none" /\ InList(step, steps_to_run)
                        THEN StageIndex(step) ELSE stage
           /\ last_response' = IF r.raised = "none" THEN Answer(client, step, outcome)
                                                   ELSE last_response
           /\ attempts' = IF r.raised = "none"
                          THEN Append(attempts, <<step, text, last_response'>>)
                          ELSE attempts
           /\ usage_sum' =
                 IF r.raised = "none"
                 THEN AddUsage(usage_sum,
                               CallUsage(client.kind,
                                         render_analyze_step(step, raw_prompt, session, text),
                                         outcome))
                 ELSE usage_sum
    /\ alt_answers' = IF client.kind /= "mock" /\ outcome.error = "none"
                         /\ outcome.text /= UsualAnswer
                      THEN alt_answers + 1 ELSE alt_answers
    /\ feedback' = text
    /\ pre' = [session |-> session, client |-> client]
    /\ last_outcome' = outcome
    /\ last_op' = "process_step"
    /\ UNCHANGED << raw_prompt, pc, accepted, rejections, harmonize_calls, startup >>

\* a harmonizer.harmonize(session) call and what it leaves behind
HarmonizeCall(outcome) ==
    /\ pc = "caller"
    /\ harmonize_calls < MaxHarmonize
    /\ Allowed(outcome, retries, alt_answers)
    /\ LET r == harmonize(session, client, outcome)
       IN  /\ session' = r.session
           /\ client' = r.client
           /\ returned' = r.returned
           /\ raised' = r.raised
           /\ last_response' = IF r.raised = "none"
                               THEN Answer(client, HARMONIZATION, outcome)
                               ELSE last_response
           /\ usage_sum' =
                 IF r.raised = "none"
                 THEN AddUsage(usage_sum,
                               CallUsage(client.kind,
                                         render_global_harmonize(session).text,
                                         outcome))
                 ELSE usage_sum
    /\ pre' = [session |-> session, client |-> client]
    /\ last_outcome' = outcome
    /\ harmonize_calls' = harmonize_calls + 1
    /\ last_op' = "harmonize"
    /\ UNCHANGED << raw_prompt, pc, stage, feedback, accepted, attempts,
                    rejections, retries, alt_answers, startup >>

\* the caller calls harmonize after the last stage, and may call it again
Harmonize(outcome) ==
    /\ stage = Len(steps_to_run)
    /\ HarmonizeCall(outcome)

\* harmonize checks nothing about the session: a caller may call it before
\* the last stage, also on a session with no completed stage
HarmonizeEarly(outcome) ==
    /\ stage < Len(steps_to_run)
    /\ HarmonizeCall(outcome)

\* the order in which run_cli's loops ask for stages: the next step of
\* steps_to_run with no feedback, or the step generated last once more, with
\* feedback, and all of them before harmonize
RunOrder(step, text) ==
    /\ harmonize_calls = 0
    /\ \/ /\ stage < Len(steps_to_run)
          /\ step = steps_to_run[stage + 1]
          /\ text = None
       \/ /\ stage >= 1
          /\ step = steps_to_run[stage]
          /\ text \in FeedbackTexts
          /\ retries < MaxRetries

\* the core under a caller that keeps the order of a run
NextCore ==
    \/ \E step \in { steps_to_run[i] : i \in 1..Len(steps_to_run) } :
          \E text \in FeedbackTexts \cup {None} :
              \E outcome \in Outcomes(client.kind) :
                  RunOrder(step, text) /\ ProcessStep(step, text, outcome)
    \/ \E outcome \in Outcomes(client.kind) : Harmonize(outcome)

SpecCore == InitCore /\ [][NextCore]_vars

\* the core under callers that also call harmonize before the last stage
NextCoreAny ==
    \/ NextCore
    \/ \E outcome \in Outcomes(client.kind) : HarmonizeEarly(outcome)

SpecCoreAny == InitCore /\ [][NextCoreAny]_vars

\* the core under any caller: process_step for any member of OptimizationStep
\* with any feedback, and harmonize, in any order
NextAny ==
    \/ \E step \in { OptimizationStep[i] : i \in 1..Len(OptimizationStep) } :
          \E text \in FeedbackTexts \cup {None} :
              \E outcome \in Outcomes(client.kind) :
                  client.calls < MaxAnyCalls /\ ProcessStep(step, text, outcome)
    \/ \E outcome \in Outcomes(client.kind) : HarmonizeCall(outcome)

SpecAny == InitCore /\ [][NextAny]_vars

\* ================================================================== claims
StageSet == { steps_to_run[i] : i \in 1..Len(steps_to_run) }

\* number of analysis_history entries recorded for a step
HistoryCount(s, step) ==
    Cardinality({ i \in 1..Len(s.analysis_history) : s.analysis_history[i].step = step })

\* the text the backend answers a request with
ResponseOf(kind, step, outcome) ==
    IF kind = "mock" THEN MockResponse(step) ELSE outcome.text

\* the step of the last process_step call
LastStep == steps_to_run[stage]

\* run_cli has ended after a session was created, with a backend that answered
RunEnded ==
    /\ pc \in {"crashed", "restart_question"}
    /\ session /= NoSession
    /\ last_outcome.error = "none"

\* the candidates generated for a step, in order
AttemptsOf(step) == SelectSeq(attempts, LAMBDA a : a[1] = step)

\* C1: parameters holds, for each stage key, only the text of a candidate the
\* user accepted; the text of a rejected or undecided candidate is never there.
C1_OnlyAcceptedInParameters ==
    \A i \in 1..Len(session.parameters) :
        session.parameters[i][1] \in StageSet
            => << session.parameters[i][1], session.parameters[i][2] >> \in accepted

\* C2: a process_step call leaves the session (parameters, analysis_history,
\* completed_steps, current_step) as it was before the call.
C2_ProcessStepLeavesSession ==
    last_op = "process_step" => session = pre.session

\* C3: process_step returns an AnalysisResult for the requested step whose
\* summary is the raw text the backend answered that call with.
C3_ReturnsAnalysisResult ==
    (last_op = "process_step" /\ raised = "none")
        => /\ returned.kind = "AnalysisResult"
           /\ returned.step = LastStep
           /\ returned.summary = last_response

\* C4: after each of the N stages was generated once, with none generated
\* again, and harmonize was called once, analysis_history has N + 2 entries.
C4_HistoryLengthNPlus2 ==
    ( /\ last_op = "harmonize"
      /\ harmonize_calls = 1
      /\ last_outcome.error = "none"
      /\ stage = Len(steps_to_run)
      /\ Len(attempts) = Len(steps_to_run) )
        => Len(session.analysis_history) = Len(steps_to_run) + 2

\* C5: over any sequence of process_step and harmonize calls on one session,
\* current_step never takes a value earlier in the fixed order of
\* OptimizationStep than the value it held before.
C5_CurrentStepMonotonic ==
    [][ StepOrder(session'.current_step) >= StepOrder(session.current_step) ]_vars

\* C6: a run commits the eight stages in the fixed order: none before its
\* predecessors, none recorded into the session more than once, harmonize
\* invoked only after output has been committed, and none skipped: a run that
\* has ended with the backend answering has committed all eight.
C6_CommittedOnceInOrder ==
    /\ \A i \in 1..Len(session.completed_steps) :
           i <= Len(steps_to_run) => session.completed_steps[i] = steps_to_run[i]
    /\ \A step \in StageSet : HistoryCount(session, step) <= 1
    /\ harmonize_calls > 0 => InList("output", session.completed_steps)
    /\ RunEnded => \A step \in StageSet : InList(step, session.completed_steps)

\* C7: when process_step was invoked twice for a stage with different
\* feedback and the second result is the one in the session, parameters holds
\* exactly one entry for the stage, the second text, and analysis_history
\* exactly one entry for the stage: the first attempt left none.
C7_SecondAttemptOverwrites ==
    ( /\ last_op = "process_step"
      /\ raised = "none"
      /\ Len(AttemptsOf(LastStep)) = 2
      /\ AttemptsOf(LastStep)[1][2] /= AttemptsOf(LastStep)[2][2] )
        => /\ DictCount(session.parameters, LastStep) = 1
           /\ DictGet(session.parameters, LastStep, None) = AttemptsOf(LastStep)[2][3]
           /\ HistoryCount(session, LastStep) = 1

\* C8: a harmonize call on a backend that answers invokes the backend once,
\* appends a harmonization entry and then a final_output entry carrying the
\* answer, and sets parameters["final_output"] to it; the earlier history and
\* the other parameters stay as they were.
C8_HarmonizeCommitsTwoEntries ==
    (last_op = "harmonize" /\ last_outcome.error = "none")
        => LET response == ResponseOf(client.kind, HARMONIZATION, last_outcome)
               n == Len(pre.session.analysis_history)
               h == session.analysis_history
           IN  /\ raised = "none"
               /\ client.calls = pre.client.calls + 1
               /\ Len(h) = n + 2
               /\ SubSeq(h, 1, n) = pre.session.analysis_history
               /\ h[n + 1].step = HARMONIZATION
               /\ h[n + 1].details = << <<"harmonized_prompt", response>> >>
               /\ h[n + 2].step = FINAL_OUTPUT
               /\ h[n + 2].details = << <<"final_prompt", response>> >>
               /\ session.parameters = DictSet(pre.session.parameters, FINAL_OUTPUT, response)

\* C10: when the backend fails during process_step, the failure reaches the
\* caller as raised, the session is as it was before the call, nothing is
\* returned and the backend was invoked once (no retry).
C10_ProcessStepBackendFailure ==
    (last_op = "process_step" /\ last_outcome.error /= "none" /\ client.kind /= "mock")
        => /\ raised = last_outcome.error
           /\ session = pre.session
           /\ returned.kind = "nothing"
           /\ client.calls = pre.client.calls + 1

\* C10 witness: a backend failure in a process_step call on a session that
\* already holds committed stages.
C10_Witness ==
    /\ last_op = "process_step"
    /\ raised \in BackendErrors
    /\ Len(session.analysis_history) >= 2
    /\ stage >= 2

\* the steps of the analysis_history entries, in order
HistorySteps(s) == [ i \in 1..Len(s.analysis_history) |-> s.analysis_history[i].step ]

\* the elements of a sequence in the order of their first occurrence
RECURSIVE FirstSeen(_)
FirstSeen(seq) ==
    IF seq = << >> THEN << >>
    ELSE LET d == FirstSeen(SubSeq(seq, 1, Len(seq) - 1))
         IN  IF InList(seq[Len(seq)], d) THEN d ELSE Append(d, seq[Len(seq)])

\* a is a prefix of b
IsPrefix(a, b) == Len(a) <= Len(b) /\ SubSeq(b, 1, Len(a)) = a

\* C11: completed_steps holds each stage identifier at most once, in the order
\* in which each was first recorded; recording a result for an identifier
\* already present leaves it unchanged.
C11_CompletedStepsFirstRecorded ==
    /\ \A i, j \in 1..Len(session.completed_steps) :
           session.completed_steps[i] = session.completed_steps[j] => i = j
    /\ session.completed_steps = FirstSeen(HistorySteps(session))

\* C11 witness: a result was recorded for an identifier already present, after
\* another stage had been completed.
C11_Witness ==
    /\ \E step \in StageSet : HistoryCount(session, step) = 2
    /\ Len(session.completed_steps) >= 2
    /\ Len(session.analysis_history) > Len(session.completed_steps)

\* C12: analysis_history is append-only (the history before an operation is a
\* prefix of the history after it) and holds one entry per accepted stage, one
\* for harmonization and one for final output.
C12_AppendOnlyOnePerAccepted ==
    /\ IsPrefix(pre.session.analysis_history, session.analysis_history)
    /\ \A step \in StageSet :
           HistoryCount(session, step) =
               IF \E a \in accepted : a[1] = step THEN 1 ELSE 0
    /\ HistoryCount(session, HARMONIZATION) <= 1
    /\ HistoryCount(session, FINAL_OUTPUT) = HistoryCount(session, HARMONIZATION)

\* C13: analysis_history is at least as long as completed_steps.
C13_HistoryAtLeastCompleted ==
    Len(session.analysis_history) >= Len(session.completed_steps)

\* C13 witness: a stage was recorded again, so the history is longer than
\* completed_steps.
C13_Witness ==
    /\ Len(session.completed_steps) >= 3
    /\ Len(session.analysis_history) = Len(session.completed_steps) + 1

\* C14: harmonize called on a session with no completed stage completes
\* without error and, with the stub backend, yields the stub's answer as
\* final_output on every such call, committing the harmonization and
\* final_output entries.
C14_HarmonizeOnEmptySession ==
    ( /\ last_op = "harmonize"
      /\ Len(pre.session.completed_steps) = 0
      /\ client.kind = "mock" )
        => /\ raised = "none"
           /\ DictGet(session.parameters, FINAL_OUTPUT, None) = MockResponse(HARMONIZATION)
           /\ HistorySteps(session) = << HARMONIZATION, FINAL_OUTPUT >>

\* C15: the usage a backend instance reports is zero before any generate call
\* and afterwards equals, counter by counter, the sum of the counts of all
\* its calls.
C15_UsageAccumulates ==
    /\ client.calls = 0 => get_token_usage(client) = ZeroUsage
    /\ get_token_usage(client) = usage_sum

\* the rendered prompt of the last analysis_history entry
LastPrompt == session.analysis_history[Len(session.analysis_history)].details[2][2]

\* C16: a run that starts with a draft prompt and whose backend never fails
\* commits the eight stages, invokes harmonize once and ends in a state where
\* parameters["final_output"] is set and is_complete holds.
C16_RunCompletes ==
    RunEnded
        => /\ \A step \in StageSet : InList(step, session.completed_steps)
           /\ harmonize_calls = 1
           /\ DictHas(session.parameters, FINAL_OUTPUT)
           /\ is_complete(session)

\* C18: the prompt process_step sends is made of its inputs only (the step,
\* the draft prompt, the session's parameters and the feedback); with no
\* feedback it carries "None provided", never a blank, and feedback text
\* that was supplied stands in place of that marker.
C18_RenderedFeedback ==
    (last_op = "process_step" /\ raised = "none")
        => /\ LastPrompt.step_label = StepLabel(LastStep)
           /\ LastPrompt.user_prompt = raw_prompt
           /\ LastPrompt.parameters = pre.session.parameters
           /\ feedback = None => LastPrompt.feedback = "None provided"
           /\ feedback \notin {None, ""} => LastPrompt.feedback = feedback
           /\ LastPrompt.feedback /= ""

\* C18 witness: a retry was rendered with the feedback the user supplied,
\* after a first attempt rendered with none.
C18_Witness ==
    /\ last_op = "process_step"
    /\ raised = "none"
    /\ feedback = "shorter"
    /\ Len(session.analysis_history) >= 2
    /\ LastPrompt.feedback = "shorter"

\* C19: a second harmonize call on a backend that answers is not rejected: it
\* invokes the backend once more, appends a harmonization and a final_output
\* entry, leaves completed_steps unchanged and overwrites
\* parameters["final_output"] with the new answer.
C19_SecondHarmonizeAppends ==
    (last_op = "harmonize" /\ harmonize_calls = 2 /\ last_outcome.error = "none")
        => LET n == Len(pre.session.analysis_history)
           IN  /\ raised = "none"
               /\ client.calls = pre.client.calls + 1
               /\ Len(session.analysis_history) = n + 2
               /\ session.analysis_history[n + 1].step = HARMONIZATION
               /\ session.analysis_history[n + 2].step = FINAL_OUTPUT
               /\ session.completed_steps = pre.session.completed_steps
               /\ DictGet(session.parameters, FINAL_OUTPUT, None)
                     = ResponseOf(client.kind, HARMONIZATION, last_outcome)

\* C20: the keys of parameters other than draft_prompt are the identifiers of
\* completed_steps other than harmonization, and when analysis_history is not
\* empty current_step is the step of its last entry.
C20_ParametersMatchCompleted ==
    /\ { session.parameters[i][1] : i \in 1..Len(session.parameters) } \ {"draft_prompt"}
         = { session.completed_steps[i] : i \in 1..Len(session.completed_steps) }
             \ {HARMONIZATION}
    /\ Len(session.analysis_history) > 0
         => session.current_step
              = session.analysis_history[Len(session.analysis_history)].step

\* C20 witness: all stages are recorded, one of them twice, and harmonize has
\* been called.
C20_Witness ==
    /\ harmonize_calls >= 1
    /\ Len(session.completed_steps) = Len(steps_to_run)
    /\ Len(session.analysis_history) > Len(session.completed_steps)
    /\ Len(session.parameters) = Len(steps_to_run) + 1

\* the key build_client reads for a hosted model
KeyOf(choice) ==
    IF choice = "gpt-5" THEN settings.openai_api_key ELSE settings.gemini_api_key

\* C21: when the selected hosted model has no API key configured, build_client
\* fails with an error and no client exists, the orchestrator is back at the
\* model selection with no session created and no generate call made; and a
\* session exists only when a client was built successfully and the draft
\* prompt entered is not empty and not "exit".
C21_NoKeyNoSession ==
    /\ ( /\ last_op = "build_client"
         /\ model_choice \in {"gpt-5", "gemini-2.5-flash"}
         /\ KeyOf(model_choice) \in {None, ""} )
          => /\ raised = "ValueError"
             /\ client = NoClient
             /\ pc = "select_model"
             /\ session = NoSession
             /\ usage_sum = ZeroUsage
             /\ attempts = << >>
    /\ session = NoSession => client.calls = 0 /\ last_op /= "process_step"
    /\ session /= NoSession
          => /\ client /= NoClient
             /\ client.kind = model_choice
             /\ model_choice \in {"gpt-5", "gemini-2.5-flash"}
                   => KeyOf(model_choice) \notin {None, ""}
             /\ raw_prompt \notin {None, "", "exit"}
             /\ DictGet(session.parameters, "draft_prompt", None) = raw_prompt

\* C21 witness: gpt-5 was selected with the OpenAI key set to the empty
\* string, and build_client has raised.
C21_Witness ==
    /\ last_op = "build_client"
    /\ model_choice = "gpt-5"
    /\ settings.openai_api_key = ""
    /\ raised = "ValueError"
    /\ pc = "select_model"

====
